---- MODULE Spec2Model ----
(***************************************************************************)
(* Model of seller.py (Ozon) and market.py (Yandex Market): the catalog    *)
(* fetchers, create_stocks / create_prices, divide, the update calls and   *)
(* the two main() orchestrations.                                          *)
(*                                                                         *)
(* A Python str is a sequence of one-character strings; a value read from  *)
(* the spreadsheet (pandas yields int or str cells) is a tagged record.    *)
(***************************************************************************)
EXTENDS Integers, Sequences, FiniteSets, TLC

VARIABLES
    mode,            \* which entry point is running
    pc,              \* position inside the running entry point
    watch_remnants,  \* the parsed feed rows
    offer_ids,       \* the caller's offer_ids list object
    known_ids,       \* value of offer_ids when it was handed to the first call
    stocks,          \* last list returned by create_stocks
    prices,          \* last list returned by create_prices
    err,             \* exception raised by the last operation, or "none"
    returned,        \* results of the create_stocks / create_prices calls so far
    div_lst,         \* divide: the list argument lst
    div_n,           \* divide: the size argument n
    div_i,           \* divide: position of the generator in range(0, len(lst), n)
    chunks,          \* divide: chunks yielded so far
    product_list,    \* get_offer_ids: items accumulated so far
    cursor,          \* get_offer_ids: last_id (Ozon) / page (Yandex)
    total,           \* get_offer_ids: last total reported (Ozon)
    pages,           \* get_offer_ids: page responses received by this call
    target,          \* main: "ozon", "fbs" or "dbs"
    batches,         \* batches still to be sent by the running dispatch loop
    calls            \* log of the remote calls issued, oldest first

vars == <<mode, pc, watch_remnants, offer_ids, known_ids, stocks, prices, err,
          returned, div_lst, div_n, div_i, chunks, product_list, cursor, total,
          pages, target, batches, calls>>

----------------------------------------------------------------------------
(* Bounds of the model *)

MaxRemnants == 2     \* longest feed

MaxLen == 4          \* longest list handed to divide

MaxStep == 3         \* divide is called with n in -MaxStep .. MaxStep

MaxCalls == 2        \* create_stocks / create_prices calls on one offer_ids list

MaxPages == 2        \* page requests one get_offer_ids call may issue

BulkSize == 101      \* offers on the longest page a server sends

MaxRecords == 2500   \* longest record list handed to a dispatch loop

----------------------------------------------------------------------------
(* Python values *)

Str(s) == [tag |-> "str", num |-> 0, s |-> s]

Int_(k) == [tag |-> "int", num |-> k, s |-> <<>>]

DigitChars == <<"0", "1", "2", "3", "4", "5", "6", "7", "8", "9">>

IsDigit(c) == \E d \in 1..10 : DigitChars[d] = c

DigitVal(c) == (CHOOSE d \in 1..10 : DigitChars[d] = c) - 1

RECURSIVE IntToStr(_)
IntToStr(k) ==
    IF k < 10 THEN <<DigitChars[k + 1]>>
    ELSE IntToStr(k \div 10) \o <<DigitChars[(k % 10) + 1]>>

\* str(v): an int cell becomes its decimal digits, a str cell is itself
str(v) == IF v.tag = "int" THEN IntToStr(v.num) ELSE v.s

RECURSIVE DecimalValue(_)
DecimalValue(s) ==
    IF s = <<>> THEN 0
    ELSE 10 * DecimalValue(SubSeq(s, 1, Len(s) - 1)) + DigitVal(s[Len(s)])

\* int(v): an int is itself; a str of decimal digits is its value (leading
\* zeros allowed); any other str of the model raises ValueError
int(v) ==
    IF v.tag = "int" THEN [ok |-> TRUE, num |-> v.num]
    ELSE IF v.s # <<>> /\ \A k \in 1..Len(v.s) : IsDigit(v.s[k])
         THEN [ok |-> TRUE, num |-> DecimalValue(v.s)]
         ELSE [ok |-> FALSE, num |-> 0]

\* x in list
In(x, list) == \E k \in 1..Len(list) : list[k] = x

\* A remove that leaves the list as it is
RemoveNothing(list, x) == list

\* list.remove(x): drops the first occurrence of x
Remove(list, x) ==
    LET k == CHOOSE j \in 1..Len(list) :
                 list[j] = x /\ \A h \in 1..(j - 1) : list[h] # x
    IN  SubSeq(list, 1, k - 1) \o SubSeq(list, k + 1, Len(list))

----------------------------------------------------------------------------
(* seller.py: price_conversion *)

\* price.split(".")[0]: the part before the first "."
BeforeDot(price) ==
    IF \E k \in 1..Len(price) : price[k] = "."
    THEN SubSeq(price, 1,
                (CHOOSE k \in 1..Len(price) :
                     price[k] = "." /\ \A h \in 1..(k - 1) : price[h] # ".") - 1)
    ELSE price

price_conversion(price) == SelectSeq(BeforeDot(price), IsDigit)

----------------------------------------------------------------------------
(* seller.py: create_stocks, create_prices *)

\* The quantity rule without the "1" sentinel
seller_resolve_literal_one(quantity) ==
    IF str(quantity) = <<">", "1", "0">> THEN [ok |-> TRUE, num |-> 100]
    ELSE int(quantity)

seller_resolve(quantity) ==
    IF str(quantity) = <<">", "1", "0">> THEN [ok |-> TRUE, num |-> 100]
    ELSE IF str(quantity) = <<"1">> THEN [ok |-> TRUE, num |-> 0]
    ELSE int(quantity)

\* The first loop of create_stocks from row k on; acc.ids is offer_ids as
\* mutated so far, acc.err the exception that ended the loop
RECURSIVE seller_stock_loop(_, _, _)
seller_stock_loop(rows, k, acc) ==
    IF k > Len(rows) THEN acc
    ELSE IF In(str(rows[k].code), acc.ids)
         THEN LET r == seller_resolve(rows[k].quantity)
              IN  IF ~r.ok THEN [acc EXCEPT !.err = "ValueError"]
                  ELSE seller_stock_loop(rows, k + 1,
                          [stocks |-> Append(acc.stocks,
                                        [offer_id |-> str(rows[k].code),
                                         stock |-> r.num]),
                           ids |-> Remove(acc.ids, str(rows[k].code)),
                           err |-> "none"])
         ELSE seller_stock_loop(rows, k + 1, acc)

\* The second loop walking offer_ids from its end
seller_zero_stocks_reversed(ids) ==
    [k \in 1..Len(ids) |-> [offer_id |-> ids[Len(ids) + 1 - k], stock |-> 0]]

seller_zero_stocks(ids) ==
    [k \in 1..Len(ids) |-> [offer_id |-> ids[k], stock |-> 0]]

\* create_stocks(watch_remnants, offer_ids): the list returned, the
\* offer_ids list as the call leaves it, and the exception raised if any
seller_create_stocks(rows, ids) ==
    LET acc == seller_stock_loop(rows, 1,
                   [stocks |-> <<>>, ids |-> ids, err |-> "none"])
    IN  IF acc.err # "none" THEN acc
        ELSE [acc EXCEPT !.stocks = acc.stocks \o seller_zero_stocks(acc.ids)]

seller_price(row) ==
    [auto_action_enabled |-> "UNKNOWN", currency_code |-> "RUB",
     offer_id |-> str(row.code), old_price |-> "0",
     price |-> price_conversion(row.price)]

seller_create_prices(rows, ids) ==
    LET hit(row) == In(str(row.code), ids)
    IN  [prices |-> [k \in 1..Len(SelectSeq(rows, hit)) |->
                        seller_price(SelectSeq(rows, hit)[k])],
         err |-> "none"]

----------------------------------------------------------------------------
(* market.py: create_stocks, create_prices *)

market_resolve(quantity) ==
    IF str(quantity) = <<">", "1", "0">> THEN [ok |-> TRUE, num |-> 100]
    ELSE IF str(quantity) = <<"1">> THEN [ok |-> TRUE, num |-> 0]
    ELSE int(quantity)

market_stock(sku, warehouse_id, count, date) ==
    [sku |-> sku, warehouseId |-> warehouse_id,
     items |-> <<[count |-> count, type |-> "FIT", updatedAt |-> date]>>]

RECURSIVE market_stock_loop(_, _, _, _, _)
market_stock_loop(rows, k, acc, warehouse_id, date) ==
    IF k > Len(rows) THEN acc
    ELSE IF In(str(rows[k].code), acc.ids)
         THEN LET r == market_resolve(rows[k].quantity)
              IN  IF ~r.ok THEN [acc EXCEPT !.err = "ValueError"]
                  ELSE market_stock_loop(rows, k + 1,
                          [stocks |-> Append(acc.stocks,
                                        market_stock(str(rows[k].code),
                                                     warehouse_id, r.num, date)),
                           ids |-> Remove(acc.ids, str(rows[k].code)),
                           err |-> "none"],
                          warehouse_id, date)
         ELSE market_stock_loop(rows, k + 1, acc, warehouse_id, date)

market_zero_stocks(ids, warehouse_id, date) ==
    [k \in 1..Len(ids) |-> market_stock(ids[k], warehouse_id, 0, date)]

\* create_stocks(watch_remnants, offer_ids, warehouse_id); date is the value
\* utcnow() gave the call
market_create_stocks(rows, ids, warehouse_id, date) ==
    LET acc == market_stock_loop(rows, 1,
                   [stocks |-> <<>>, ids |-> ids, err |-> "none"],
                   warehouse_id, date)
    IN  IF acc.err # "none" THEN acc
        ELSE [acc EXCEPT !.stocks =
                 acc.stocks \o market_zero_stocks(acc.ids, warehouse_id, date)]

market_price(row) ==
    [id |-> str(row.code),
     price |-> [value |-> int(Str(price_conversion(row.price))).num,
                currencyId |-> "RUR"]]

\* int() of a price without a digit before the "." raises ValueError
market_create_prices(rows, ids) ==
    LET hit(row) == In(str(row.code), ids)
        hits == SelectSeq(rows, hit)
    IN  IF \E k \in 1..Len(hits) : ~int(Str(price_conversion(hits[k].price))).ok
        THEN [prices |-> <<>>, err |-> "ValueError"]
        ELSE [prices |-> [k \in 1..Len(hits) |-> market_price(hits[k])],
              err |-> "none"]

\* The offer id and the count of a stock record of either marketplace
StockId(rec) == IF "sku" \in DOMAIN rec THEN rec.sku ELSE rec.offer_id

StockCount(rec) == IF "sku" \in DOMAIN rec THEN rec.items[1].count ELSE rec.stock

PriceId(rec) == IF "id" \in DOMAIN rec THEN rec.id ELSE rec.offer_id

PriceValue(rec) ==
    IF "id" \in DOMAIN rec THEN rec.price.value
    ELSE DecimalValue(rec.price)

----------------------------------------------------------------------------
(* Inputs *)

\* Offer identifiers a marketplace catalog may hold
Ids == {<<"A">>, <<"7">>, <<"C">>}

\* The code cells of the feed: a str cell and an int cell; either is absent
\* from the catalogs that do not list it
Codes == {Str(<<"A">>), Int_(7)}

\* The quantity and price cells of the feed
Data ==
    { [quantity |-> Str(<<">", "1", "0">>),
       price |-> <<"1", "9", "'", "9", "9", "0", ".", "0", "0", " ", "r", ".">>],
      [quantity |-> Str(<<"1">>),
       price |-> <<"5", "0", ".", "0", "0", " ", "x">>],
      [quantity |-> Str(<<"3", "7">>),
       price |-> <<"7">>],
      [quantity |-> Str(<<>>),
       price |-> <<"5", ".", "5">>] }

Rows == {[code |-> c, quantity |-> d.quantity, price |-> d.price] :
            c \in Codes, d \in Data}

SeqsUpTo(S, max) == UNION {[1..m -> S] : m \in 0..max}

Distinct(list) ==
    \A a, b \in 1..Len(list) : a # b => list[a] # list[b]

Feeds == SeqsUpTo(Rows, MaxRemnants)

\* A catalog is a list of distinct offer identifiers
Catalogs == {c \in SeqsUpTo(Ids, Cardinality(Ids)) : Distinct(c)}

\* datetime.utcnow() read after `ticks` earlier calls: the clock moves on
\* between two calls
utcnow(ticks) == <<"T", ticks>>

Elems(list) == {list[k] : k \in 1..Len(list)}

----------------------------------------------------------------------------
(* Reconciliation: a caller holding one feed and one offer_ids list calls   *)
(* create_stocks and create_prices of one module, in any order              *)

Idle ==
    /\ div_lst = <<>> /\ div_n = 1 /\ div_i = 0 /\ chunks = <<>>
    /\ product_list = <<>> /\ cursor = "" /\ total = 0 /\ pages = 0
    /\ target = "none" /\ batches = <<>> /\ calls = <<>>

InitRecon ==
    /\ mode = "recon"
    /\ pc \in {"seller", "market"}
    /\ watch_remnants \in Feeds
    /\ offer_ids \in Catalogs
    /\ known_ids = offer_ids
    /\ stocks = <<>> /\ prices = <<>> /\ err = "none" /\ returned = <<>>
    /\ Idle

ReconFrame ==
    UNCHANGED <<mode, pc, watch_remnants, known_ids, div_lst, div_n, div_i,
                chunks, product_list, cursor, total, pages, target, batches,
                calls>>

Returns(fn, r, result) ==
    Append(returned, [fn |-> fn, ids |-> offer_ids, result |-> result,
                      err |-> r.err])

SellerCreateStocks ==
    /\ mode = "recon" /\ pc = "seller" /\ Len(returned) < MaxCalls
    /\ LET r == seller_create_stocks(watch_remnants, offer_ids)
       IN  /\ offer_ids' = r.ids
           /\ err' = r.err
           /\ stocks' = IF r.err = "none" THEN r.stocks ELSE stocks
           /\ returned' = Returns("create_stocks", r, r.stocks)
    /\ UNCHANGED prices
    /\ ReconFrame

SellerCreatePrices ==
    /\ mode = "recon" /\ pc = "seller" /\ Len(returned) < MaxCalls
    /\ LET r == seller_create_prices(watch_remnants, offer_ids)
       IN  /\ err' = r.err
           /\ prices' = IF r.err = "none" THEN r.prices ELSE prices
           /\ returned' = Returns("create_prices", r, r.prices)
    /\ UNCHANGED <<offer_ids, stocks>>
    /\ ReconFrame

MarketCreateStocks ==
    /\ mode = "recon" /\ pc = "market" /\ Len(returned) < MaxCalls
    /\ LET r == market_create_stocks(watch_remnants, offer_ids, "WFBS",
                                      utcnow(Len(returned)))
       IN  /\ offer_ids' = r.ids
           /\ err' = r.err
           /\ stocks' = IF r.err = "none" THEN r.stocks ELSE stocks
           /\ returned' = Returns("create_stocks", r, r.stocks)
    /\ UNCHANGED prices
    /\ ReconFrame

MarketCreatePrices ==
    /\ mode = "recon" /\ pc = "market" /\ Len(returned) < MaxCalls
    /\ LET r == market_create_prices(watch_remnants, offer_ids)
       IN  /\ err' = r.err
           /\ prices' = IF r.err = "none" THEN r.prices ELSE prices
           /\ returned' = Returns("create_prices", r, r.prices)
    /\ UNCHANGED <<offer_ids, stocks>>
    /\ ReconFrame

NextRecon ==
    \/ SellerCreateStocks
    \/ SellerCreatePrices
    \/ MarketCreateStocks
    \/ MarketCreatePrices

SpecRecon == InitRecon /\ [][NextRecon]_vars

----------------------------------------------------------------------------
(* Properties of create_stocks and create_prices, checked under SpecRecon *)

StockCalls == {j \in 1..Len(returned) :
                  returned[j].fn = "create_stocks" /\ returned[j].err = "none"}

PriceCalls == {j \in 1..Len(returned) :
                  returned[j].fn = "create_prices" /\ returned[j].err = "none"}

StockIdList(result) == [k \in 1..Len(result) |-> StockId(result[k])]

PriceIdList(result) == [k \in 1..Len(result) |-> PriceId(result[k])]

\* The first feed row whose code is id
HasRow(id) == \E k \in 1..Len(watch_remnants) : str(watch_remnants[k].code) = id

FirstRow(id) ==
    watch_remnants[CHOOSE k \in 1..Len(watch_remnants) :
        /\ str(watch_remnants[k].code) = id
        /\ \A h \in 1..(k - 1) : str(watch_remnants[h].code) # id]

DuplicateCodeIn(ids) ==
    \E a, b \in 1..Len(watch_remnants) :
        /\ a < b
        /\ str(watch_remnants[a].code) = str(watch_remnants[b].code)
        /\ In(str(watch_remnants[a].code), ids)

\* C1: every list create_stocks returns (seller.py or market.py) holds exactly
\* one record per identifier of the offer_ids list it was given: the set of
\* record ids equals the set of given ids and no id occurs in two records.
C1_StocksCoverCatalog ==
    \A j \in StockCalls :
        /\ Elems(StockIdList(returned[j].result)) = Elems(returned[j].ids)
        /\ Distinct(StockIdList(returned[j].result))

\* C1 witness: create_stocks returned for a three-offer catalog and a feed
\* that repeats a code of that catalog
C1_Witness ==
    \E j \in StockCalls :
        /\ Len(returned[j].ids) = 3
        /\ DuplicateCodeIn(returned[j].ids)
        /\ Len(returned[j].result) = 3

\* The count the quantity rule assigns to a raw quantity cell
RuleCount(quantity) ==
    CASE str(quantity) = <<">", "1", "0">> -> 100
      [] str(quantity) = <<"1">> -> 0
      [] OTHER -> DecimalValue(str(quantity))

\* C4: in every list create_stocks returns, the record of an offer that the
\* feed mentions carries 100 for ">10", 0 for "1" and the literal integer for
\* any other numeric quantity (of the first feed row with that code), and
\* the record of an offer the feed does not mention carries 0.
C4_ResolvedCounts ==
    \A j \in StockCalls :
        \A k \in 1..Len(returned[j].result) :
            LET rec == returned[j].result[k]
            IN  StockCount(rec) =
                    IF HasRow(StockId(rec))
                    THEN RuleCount(FirstRow(StockId(rec)).quantity)
                    ELSE 0

\* C4 witness: one returned list holds a count of 100, a literal 37 and a 0
\* for an offer the feed does not mention
C4_Witness ==
    \E j \in StockCalls :
        LET result == returned[j].result
        IN  /\ \E k \in 1..Len(result) : StockCount(result[k]) = 100
            /\ \E k \in 1..Len(result) : StockCount(result[k]) = 37
            /\ \E k \in 1..Len(result) :
                   StockCount(result[k]) = 0 /\ ~HasRow(StockId(result[k]))

\* C3: for a code the feed repeats, reconciliation emits at most one stock
\* record and at most one price record for that offer, both taken from the
\* first row with that code.
C3_FirstOccurrenceWins ==
    /\ \A j \in StockCalls :
           /\ Distinct(StockIdList(returned[j].result))
           /\ \A k \in 1..Len(returned[j].result) :
                  LET rec == returned[j].result[k]
                  IN  HasRow(StockId(rec)) =>
                          StockCount(rec) = RuleCount(FirstRow(StockId(rec)).quantity)
    /\ \A j \in PriceCalls :
           /\ Distinct(PriceIdList(returned[j].result))
           /\ \A k \in 1..Len(returned[j].result) :
                  LET rec == returned[j].result[k]
                  IN  PriceValue(rec) =
                          DecimalValue(price_conversion(FirstRow(PriceId(rec)).price))

\* The offer_ids list as call j left it
IdsAfter(j) == IF j < Len(returned) THEN returned[j + 1].ids ELSE offer_ids

IdCounts(result) ==
    [k \in 1..Len(result) |-> <<StockId(result[k]), StockCount(result[k])>>]

\* C10: create_stocks leaves the caller's offer_ids list as it was, and two
\* consecutive create_stocks calls on the same feed and the same list return
\* the same (offer id, count) records.
C10_CreateStocksStateless ==
    /\ \A j \in 1..Len(returned) :
           returned[j].fn = "create_stocks" => IdsAfter(j) = returned[j].ids
    /\ \A j \in StockCalls :
           (j + 1) \in StockCalls =>
               IdCounts(returned[j + 1].result) = IdCounts(returned[j].result)

\* The feed positions that hold the first row of a code listed in ids
FirstMatches(ids) ==
    {k \in 1..Len(watch_remnants) :
        /\ In(str(watch_remnants[k].code), ids)
        /\ \A h \in 1..(k - 1) :
               str(watch_remnants[h].code) # str(watch_remnants[k].code)}

\* The codes at those positions, in feed order
MatchedInFeedOrder(ids) ==
    [m \in 1..Cardinality(FirstMatches(ids)) |->
        str(watch_remnants[CHOOSE k \in FirstMatches(ids) :
                Cardinality({h \in FirstMatches(ids) : h < k}) = m - 1].code)]

\* The ids the feed does not mention, in the order ids lists them
Unmatched(id) == ~HasRow(id)

\* C11: the records create_stocks returns are first those of the matched
\* feed rows, in the order of the rows in the feed, then the zero-count
\* records of the catalog ids the feed did not match, in the relative order
\* those ids have in the catalog list.
C11_StocksOrder ==
    \A j \in StockCalls :
        LET result == returned[j].result
            lead == Len(MatchedInFeedOrder(returned[j].ids))
        IN  /\ StockIdList(result) =
                   MatchedInFeedOrder(returned[j].ids)
                       \o SelectSeq(returned[j].ids, Unmatched)
            /\ \A k \in (lead + 1)..Len(result) : StockCount(result[k]) = 0

\* C11 witness: a returned list whose first record is a matched offer that
\* the catalog does not list first, followed by the zero records of two
\* unmatched offers
C11_Witness ==
    \E j \in StockCalls :
        LET result == returned[j].result
        IN  /\ Len(result) = 3
            /\ HasRow(StockId(result[1]))
            /\ StockId(result[1]) # returned[j].ids[1]
            /\ ~HasRow(StockId(result[2])) /\ ~HasRow(StockId(result[3]))

----------------------------------------------------------------------------
(* seller.py: divide, a generator; each next() on it is one step *)

Min(a, b) == IF a < b THEN a ELSE b

\* lst[a:b] for 0 <= a and 0 <= b
Slice(list, a, b) == SubSeq(list, a + 1, Min(b, Len(list)))

\* range(0, stop, step) still has the element at position pos
RangeHas(pos, stop, step) ==
    \/ step > 0 /\ pos < stop
    \/ step < 0 /\ pos > stop

\* The chunk one element short
divide_chunk_short(list, size, pos) == Slice(list, pos, pos + size - 1)

\* lst[i : i + n]
divide_chunk(list, size, pos) == Slice(list, pos, pos + size)

Items == {"a", "b"}

InitDivide ==
    /\ mode = "divide"
    /\ pc = "created"
    /\ div_lst \in SeqsUpTo(Items, MaxLen)
    /\ div_n \in (0 - MaxStep)..MaxStep
    /\ div_i = 0
    /\ chunks = <<>>
    /\ err = "none"
    /\ watch_remnants = <<>> /\ offer_ids = <<>> /\ known_ids = <<>>
    /\ stocks = <<>> /\ prices = <<>> /\ returned = <<>>
    /\ product_list = <<>> /\ cursor = "" /\ total = 0 /\ pages = 0
    /\ target = "none" /\ batches = <<>> /\ calls = <<>>

DivideFrame ==
    UNCHANGED <<mode, watch_remnants, offer_ids, known_ids, stocks, prices,
                returned, div_lst, div_n, product_list, cursor, total, pages,
                target, batches, calls>>

\* range(0, len(lst), 0) raises ValueError when the body first runs
DivideRaise ==
    /\ mode = "divide" /\ pc = "created" /\ div_n = 0
    /\ pc' = "raised"
    /\ err' = "ValueError"
    /\ UNCHANGED <<div_i, chunks>>
    /\ DivideFrame

DivideYield ==
    /\ mode = "divide" /\ pc \in {"created", "suspended"} /\ div_n # 0
    /\ RangeHas(div_i, Len(div_lst), div_n)
    /\ chunks' = Append(chunks, divide_chunk(div_lst, div_n, div_i))
    /\ div_i' = div_i + div_n
    /\ pc' = "suspended"
    /\ UNCHANGED err
    /\ DivideFrame

\* The range is used up: the generator returns (StopIteration)
DivideStop ==
    /\ mode = "divide" /\ pc \in {"created", "suspended"} /\ div_n # 0
    /\ ~RangeHas(div_i, Len(div_lst), div_n)
    /\ pc' = "exhausted"
    /\ UNCHANGED <<div_i, chunks, err>>
    /\ DivideFrame

NextDivide ==
    \/ DivideRaise
    \/ DivideYield
    \/ DivideStop

SpecDivide == InitDivide /\ [][NextDivide]_vars

RECURSIVE Concat(_)
Concat(lists) ==
    IF lists = <<>> THEN <<>>
    ELSE Concat(SubSeq(lists, 1, Len(lists) - 1)) \o lists[Len(lists)]

\* C5: for n >= 1 the chunks divide yields are contiguous pieces of lst in
\* order (their concatenation is a prefix of lst, and all of lst once the
\* generator is exhausted), every chunk but the last has exactly n elements,
\* the last has between 1 and n, and no error is raised; an empty list
\* yields no chunk.
C5_DivideChunks ==
    (mode = "divide" /\ div_n >= 1) =>
        /\ Len(Concat(chunks)) <= Len(div_lst)
        /\ Concat(chunks) = SubSeq(div_lst, 1, Len(Concat(chunks)))
        /\ \A k \in 1..Len(chunks) :
               /\ Len(chunks[k]) >= 1 /\ Len(chunks[k]) <= div_n
               /\ k < Len(chunks) => Len(chunks[k]) = div_n
        /\ pc = "exhausted" => Concat(chunks) = div_lst
        /\ div_lst = <<>> => chunks = <<>>
        /\ pc # "raised"

\* C5 witness: an exhausted generator that gave one full chunk and then a
\* shorter last one
C5_Witness ==
    /\ mode = "divide" /\ pc = "exhausted" /\ div_n = 2
    /\ Len(chunks) = 2 /\ Len(chunks[2]) = 1

\* C6: divide called with n <= 0 ends in an error; it never completes
\* normally.
C6_NonPositiveSizeRaises ==
    (mode = "divide" /\ div_n <= 0) => pc # "exhausted"

----------------------------------------------------------------------------
(* The runs of seller.main and market.main. The marketplace servers and the *)
(* feed download are the environment: a remote call fails or answers, and   *)
(* what a page response holds is the server's choice.                       *)

\* No chunking: the whole list as one batch
list_undivided(list, size) == IF list = <<>> THEN <<>> ELSE <<list>>

\* list(divide(lst, n)) for n > 0
list_divide(list, size) ==
    [b \in 1..((Len(list) + size - 1) \div size) |->
        divide_chunk(list, size, (b - 1) * size)]

SellerMainStockSize == 100

SellerMainPriceSize == 900

MarketMainStockSize == 2000

\* A long page of offers the feed does not mention
BulkPage == [k \in 1..BulkSize |-> IntToStr(1000 + k)]

\* The items one page response may hold
PageItems == {<<>>, <<<<"A">>>>, <<<<"7">>, <<"C">>>>}

\* An Ozon page may also be a long one
OzonPageItems == PageItems \cup {BulkPage}

\* The totals an Ozon response may report once `count` items are accumulated:
\* the accumulated count, one less or one more
TotalsFor(count) == {t \in {count - 1, count, count + 1} : t >= 0}

ozon_items(ids) == [k \in 1..Len(ids) |-> [offer_id |-> ids[k]]]

yandex_items(ids) == [k \in 1..Len(ids) |-> [offer |-> [shopSku |-> ids[k]]]]

\* last_id of an Ozon response
OzonCursors == {"", "p"}

\* nextPageToken of a Yandex response; "None" stands for an absent key
YandexCursors == {"None", "", "p"}

\* The feeds a download may give a run
MainRows ==
    { [code |-> Str(<<"A">>), quantity |-> Str(<<">", "1", "0">>),
       price |-> <<"1", "0", "0", ".", "0", "0", " ", "x">>],
      [code |-> Int_(7), quantity |-> Str(<<"1">>),
       price |-> <<"5", "0", ".", "0", "0", " ", "x">>],
      [code |-> Str(<<"A">>), quantity |-> Str(<<>>),
       price |-> <<"5", ".", "5">>] }

MainFeeds == SeqsUpTo(MainRows, MaxRemnants)

Call(fn, arg, ok) == [fn |-> fn, target |-> target, arg |-> arg, ok |-> ok]

InitMain ==
    /\ mode \in {"seller_main", "market_main"}
    /\ pc = IF mode = "seller_main" THEN "fetch" ELSE "download"
    /\ target = IF mode = "seller_main" THEN "ozon" ELSE "fbs"
    /\ watch_remnants = <<>> /\ offer_ids = <<>> /\ known_ids = <<>>
    /\ stocks = <<>> /\ prices = <<>> /\ err = "none" /\ returned = <<>>
    /\ div_lst = <<>> /\ div_n = 1 /\ div_i = 0 /\ chunks = <<>>
    /\ product_list = <<>> /\ cursor = "" /\ total = 0 /\ pages = 0
    /\ batches = <<>> /\ calls = <<>>

DivideIdle == UNCHANGED <<mode, div_lst, div_n, div_i, chunks>>

\* A handler that swallows the exception and lets the loop go on
RaisedAndGoesOn(fn, arg) ==
    /\ calls' = Append(calls, Call(fn, arg, FALSE))
    /\ pc' = pc
    /\ err' = "RequestException"

\* A remote call raised: the except clauses of main print and main returns
Raised(fn, arg) ==
    /\ calls' = Append(calls, Call(fn, arg, FALSE))
    /\ pc' = "done"
    /\ err' = "RequestException"

(* seller.main *)

\* One turn of the while loop of seller.get_offer_ids
SellerGetProductList ==
    /\ mode = "seller_main" /\ pc = "fetch" /\ pages < MaxPages
    /\ \/ /\ Raised("get_product_list", cursor)
          /\ UNCHANGED <<product_list, cursor, total, pages, offer_ids,
                         known_ids>>
       \/ \E items \in OzonPageItems, last \in OzonCursors :
          \E tot \in TotalsFor(Len(product_list) + Len(items)) :
            /\ calls' = Append(calls, Call("get_product_list", cursor, TRUE))
            /\ product_list' = product_list \o ozon_items(items)
            /\ total' = tot
            /\ cursor' = last
            /\ pages' = pages + 1
            /\ IF tot = Len(product_list')
               THEN /\ offer_ids' = [k \in 1..Len(product_list') |->
                                        product_list'[k].offer_id]
                    /\ known_ids' = offer_ids'
                    /\ pc' = "download"
               ELSE /\ pc' = "fetch"
                    /\ UNCHANGED <<offer_ids, known_ids>>
            /\ UNCHANGED err
    /\ UNCHANGED <<watch_remnants, stocks, prices, returned, target, batches>>
    /\ DivideIdle

SellerDownloadStock ==
    /\ mode = "seller_main" /\ pc = "download"
    /\ \/ /\ Raised("download_stock", "")
          /\ UNCHANGED watch_remnants
       \/ /\ calls' = Append(calls, Call("download_stock", "", TRUE))
          /\ watch_remnants' \in MainFeeds
          /\ pc' = "stocks"
          /\ UNCHANGED err
    /\ UNCHANGED <<offer_ids, known_ids, stocks, prices, returned, product_list,
                   cursor, total, pages, target, batches>>
    /\ DivideIdle

\* stocks = create_stocks(...) and list(divide(stocks, 100))
SellerMainStocks ==
    /\ mode = "seller_main" /\ pc = "stocks"
    /\ LET r == seller_create_stocks(watch_remnants, offer_ids)
       IN  /\ offer_ids' = r.ids
           /\ err' = r.err
           /\ returned' = Append(returned,
                  [fn |-> "create_stocks", target |-> target,
                   ids |-> offer_ids, result |-> r.stocks, err |-> r.err])
           /\ IF r.err = "none"
              THEN /\ stocks' = r.stocks
                   /\ batches' = list_divide(r.stocks, SellerMainStockSize)
                   /\ pc' = "send_stocks"
              ELSE /\ pc' = "done"
                   /\ UNCHANGED <<stocks, batches>>
    /\ UNCHANGED <<watch_remnants, known_ids, prices, product_list, cursor,
                   total, pages, target, calls>>
    /\ DivideIdle

SellerUpdateStocks ==
    /\ mode = "seller_main" /\ pc = "send_stocks" /\ batches # <<>>
    /\ \/ /\ Raised("update_stocks", Head(batches))
          /\ UNCHANGED batches
       \/ /\ calls' = Append(calls, Call("update_stocks", Head(batches), TRUE))
          /\ batches' = Tail(batches)
          /\ UNCHANGED <<pc, err>>
    /\ UNCHANGED <<watch_remnants, offer_ids, known_ids, stocks, prices,
                   returned, product_list, cursor, total, pages, target>>
    /\ DivideIdle

\* prices = create_prices(...) and list(divide(prices, 900)), on the
\* offer_ids list create_stocks has worked on
SellerMainPrices ==
    /\ mode = "seller_main" /\ pc = "send_stocks" /\ batches = <<>>
    /\ LET r == seller_create_prices(watch_remnants, offer_ids)
       IN  /\ prices' = r.prices
           /\ returned' = Append(returned,
                  [fn |-> "create_prices", target |-> target,
                   ids |-> offer_ids, result |-> r.prices, err |-> r.err])
           /\ batches' = list_divide(r.prices, SellerMainPriceSize)
           /\ pc' = "send_prices"
    /\ UNCHANGED <<watch_remnants, offer_ids, known_ids, stocks, err,
                   product_list, cursor, total, pages, target, calls>>
    /\ DivideIdle

SellerUpdatePrice ==
    /\ mode = "seller_main" /\ pc = "send_prices" /\ batches # <<>>
    /\ \/ /\ Raised("update_price", Head(batches))
          /\ UNCHANGED batches
       \/ /\ calls' = Append(calls, Call("update_price", Head(batches), TRUE))
          /\ batches' = Tail(batches)
          /\ UNCHANGED <<pc, err>>
    /\ UNCHANGED <<watch_remnants, offer_ids, known_ids, stocks, prices,
                   returned, product_list, cursor, total, pages, target>>
    /\ DivideIdle

SellerMainReturn ==
    /\ mode = "seller_main" /\ pc = "send_prices" /\ batches = <<>>
    /\ pc' = "done"
    /\ UNCHANGED <<watch_remnants, offer_ids, known_ids, stocks, prices, err,
                   returned, product_list, cursor, total, pages, target,
                   batches, calls>>
    /\ DivideIdle

(* market.main *)

\* download_stock() is called before the try block: its exception leaves main
MarketDownloadStock ==
    /\ mode = "market_main" /\ pc = "download"
    /\ \/ /\ Raised("download_stock", "")
          /\ UNCHANGED watch_remnants
       \/ /\ calls' = Append(calls, Call("download_stock", "", TRUE))
          /\ watch_remnants' \in MainFeeds
          /\ pc' = "fetch"
          /\ UNCHANGED err
    /\ UNCHANGED <<offer_ids, known_ids, stocks, prices, returned, product_list,
                   cursor, total, pages, target, batches>>
    /\ DivideIdle

\* "if not page": None and "" both end the loop
NotPage(page) == page \in {"None", ""}

\* One turn of the while loop of market.get_offer_ids
MarketGetProductList ==
    /\ mode = "market_main" /\ pc = "fetch" /\ pages < MaxPages
    /\ \/ /\ Raised("get_product_list", cursor)
          /\ UNCHANGED <<product_list, cursor, pages, offer_ids, known_ids>>
       \/ \E items \in PageItems, next \in YandexCursors :
            /\ calls' = Append(calls, Call("get_product_list", cursor, TRUE))
            /\ product_list' = product_list \o yandex_items(items)
            /\ cursor' = next
            /\ pages' = pages + 1
            /\ IF NotPage(next)
               THEN /\ offer_ids' = [k \in 1..Len(product_list') |->
                                        product_list'[k].offer.shopSku]
                    /\ known_ids' = offer_ids'
                    /\ pc' = "stocks"
               ELSE /\ pc' = "fetch"
                    /\ UNCHANGED <<offer_ids, known_ids>>
            /\ UNCHANGED err
    /\ UNCHANGED <<watch_remnants, stocks, prices, returned, total, target,
                   batches>>
    /\ DivideIdle

warehouse_of(t) == IF t = "fbs" THEN "WFBS" ELSE "WDBS"

\* stocks = create_stocks(...) and list(divide(stocks, 2000))
MarketMainStocks ==
    /\ mode = "market_main" /\ pc = "stocks"
    /\ LET r == market_create_stocks(watch_remnants, offer_ids,
                                     warehouse_of(target), utcnow(Len(returned)))
       IN  /\ offer_ids' = r.ids
           /\ err' = r.err
           /\ returned' = Append(returned,
                  [fn |-> "create_stocks", target |-> target,
                   ids |-> offer_ids, result |-> r.stocks, err |-> r.err])
           /\ IF r.err = "none"
              THEN /\ stocks' = r.stocks
                   /\ batches' = list_divide(r.stocks, MarketMainStockSize)
                   /\ pc' = "send_stocks"
              ELSE /\ pc' = "done"
                   /\ UNCHANGED <<stocks, batches>>
    /\ UNCHANGED <<watch_remnants, known_ids, prices, product_list, cursor,
                   total, pages, target, calls>>
    /\ DivideIdle

MarketUpdateStocks ==
    /\ mode = "market_main" /\ pc = "send_stocks" /\ batches # <<>>
    /\ \/ /\ Raised("update_stocks", Head(batches))
          /\ UNCHANGED batches
       \/ /\ calls' = Append(calls, Call("update_stocks", Head(batches), TRUE))
          /\ batches' = Tail(batches)
          /\ UNCHANGED <<pc, err>>
    /\ UNCHANGED <<watch_remnants, offer_ids, known_ids, stocks, prices,
                   returned, product_list, cursor, total, pages, target>>
    /\ DivideIdle

\* upload_prices(...) is an async def called without await: the call builds
\* a coroutine object and none of its body runs. main goes on to the DBS
\* campaign (a new get_offer_ids call), or returns after it.
MarketUploadPricesCall ==
    /\ mode = "market_main" /\ pc = "send_stocks" /\ batches = <<>>
    /\ IF target = "fbs"
       THEN /\ target' = "dbs"
            /\ pc' = "fetch"
            /\ product_list' = <<>> /\ cursor' = "" /\ pages' = 0
       ELSE /\ pc' = "done"
            /\ UNCHANGED <<target, product_list, cursor, pages>>
    /\ UNCHANGED <<watch_remnants, offer_ids, known_ids, stocks, prices, err,
                   returned, total, batches, calls>>
    /\ DivideIdle

NextMain ==
    \/ SellerGetProductList
    \/ SellerDownloadStock
    \/ SellerMainStocks
    \/ SellerUpdateStocks
    \/ SellerMainPrices
    \/ SellerUpdatePrice
    \/ SellerMainReturn
    \/ MarketDownloadStock
    \/ MarketGetProductList
    \/ MarketMainStocks
    \/ MarketUpdateStocks
    \/ MarketUploadPricesCall

SpecMain == InitMain /\ [][NextMain]_vars

----------------------------------------------------------------------------
(* Properties of the runs, checked under SpecMain *)

InMain == mode \in {"seller_main", "market_main"}

FeedIds == {str(watch_remnants[k].code) : k \in 1..Len(watch_remnants)}

\* The offer ids of the price records the price endpoint of target t accepted
SentPriceIds(t) ==
    UNION {Elems(PriceIdList(calls[k].arg)) :
              k \in {h \in 1..Len(calls) :
                        /\ calls[h].fn = "update_price"
                        /\ calls[h].target = t
                        /\ calls[h].ok}}

\* C2: when a run ends without an error, the offer ids of the price records
\* sent for a target are exactly the ids present both in the feed and in the
\* catalog fetched for that target.
C2_PricesForMatchedOffers ==
    (InMain /\ pc = "done" /\ err = "none") =>
        \A j \in 1..Len(returned) :
            returned[j].fn = "create_stocks" =>
                SentPriceIds(returned[j].target) =
                    Elems(returned[j].ids) \cap FeedIds

\* C7: once a page response of a get_offer_ids call carried an empty or
\* absent cursor, that call issues no further page request.
C7_EmptyCursorEndsFetch ==
    [][(InMain /\ pc = "fetch" /\ pages > 0 /\ NotPage(cursor))
           => calls' = calls]_vars

\* C9: a failed remote call is the last remote call of the run: the run has
\* ended with the error, nothing was sent after it and the failed call was
\* not repeated.
C9_FailureEndsRun ==
    InMain =>
        \A k \in 1..Len(calls) :
            ~calls[k].ok => (k = Len(calls) /\ pc = "done" /\ err # "none")

\* C9 witness: the first of several stock batches was refused and the run
\* ended with the later batches unsent
C9_Witness ==
    /\ InMain /\ pc = "done" /\ calls # <<>>
    /\ calls[Len(calls)].fn = "update_stocks" /\ ~calls[Len(calls)].ok
    /\ Len(batches) >= 2
    /\ calls[Len(calls)].arg = Head(batches)

----------------------------------------------------------------------------
(* The dispatch loops "for some in list(divide(records, size)): update(some)" *)
(* of both modules, each on a record list of any length                       *)

SellerUploadPricesSize == 1000

SellerUploadStocksSize == 100

MarketUploadPricesSize == 500

MarketUploadStocksSize == 2000

\* The loops: where each is, the size it hands to divide, the update it calls
Sites ==
    { [at |-> "seller.upload_prices", size |-> SellerUploadPricesSize,
       market |-> "ozon", fn |-> "update_price"],
      [at |-> "seller.upload_stocks", size |-> SellerUploadStocksSize,
       market |-> "ozon", fn |-> "update_stocks"],
      [at |-> "seller.main stocks", size |-> SellerMainStockSize,
       market |-> "ozon", fn |-> "update_stocks"],
      [at |-> "seller.main prices", size |-> SellerMainPriceSize,
       market |-> "ozon", fn |-> "update_price"],
      [at |-> "market.upload_prices", size |-> MarketUploadPricesSize,
       market |-> "yandex", fn |-> "update_price"],
      [at |-> "market.upload_stocks", size |-> MarketUploadStocksSize,
       market |-> "yandex", fn |-> "update_stocks"],
      [at |-> "market.main stocks", size |-> MarketMainStockSize,
       market |-> "yandex", fn |-> "update_stocks"] }

\* Record counts at, just above and just below the multiples of 100 (every
\* size above is a multiple of 100)
RecordCounts == {c \in 0..MaxRecords : (c % 100) \in {0, 1, 99}}

\* The records are named by their position in the list
InitDispatch ==
    /\ mode = "dispatch"
    /\ pc = "divide"
    /\ target \in Sites
    /\ \E c \in RecordCounts : div_lst = [k \in 1..c |-> k]
    /\ div_n = target.size
    /\ div_i = 0 /\ chunks = <<>>
    /\ watch_remnants = <<>> /\ offer_ids = <<>> /\ known_ids = <<>>
    /\ stocks = <<>> /\ prices = <<>> /\ err = "none" /\ returned = <<>>
    /\ product_list = <<>> /\ cursor = "" /\ total = 0 /\ pages = 0
    /\ batches = <<>> /\ calls = <<>>

DispatchFrame ==
    UNCHANGED <<mode, watch_remnants, offer_ids, known_ids, stocks, prices,
                returned, div_lst, div_n, div_i, chunks, product_list, cursor,
                total, pages, target>>

\* list(divide(records, size)) is built before the first update call
DispatchDivide ==
    /\ mode = "dispatch" /\ pc = "divide"
    /\ batches' = list_divide(div_lst, div_n)
    /\ pc' = "send"
    /\ UNCHANGED <<err, calls>>
    /\ DispatchFrame

\* update_stocks / update_price on the next batch; raise_for_status() raises
\* on a refusal and the loop is left
DispatchUpdate ==
    /\ mode = "dispatch" /\ pc = "send" /\ batches # <<>>
    /\ \/ /\ calls' = Append(calls, [fn |-> target.fn, target |-> target.at,
                                     arg |-> Head(batches), ok |-> FALSE])
          /\ pc' = "done"
          /\ err' = "RequestException"
          /\ UNCHANGED batches
       \/ /\ calls' = Append(calls, [fn |-> target.fn, target |-> target.at,
                                     arg |-> Head(batches), ok |-> TRUE])
          /\ batches' = Tail(batches)
          /\ UNCHANGED <<pc, err>>
    /\ DispatchFrame

DispatchReturn ==
    /\ mode = "dispatch" /\ pc = "send" /\ batches = <<>>
    /\ pc' = "done"
    /\ UNCHANGED <<err, batches, calls>>
    /\ DispatchFrame

NextDispatch ==
    \/ DispatchDivide
    \/ DispatchUpdate
    \/ DispatchReturn

SpecDispatch == InitDispatch /\ [][NextDispatch]_vars

\* The payloads of the calls made so far, joined in the order of the calls
Dispatched == Concat([k \in 1..Len(calls) |-> calls[k].arg])

\* C8: every update call carries at most the ceiling of its endpoint (Ozon:
\* price 1000, stock 900; Yandex: price 500, stock 2000); the payloads sent
\* so far, in call order, are the leading part of the record list, and the
\* whole list once the loop has ended without an error; 2500 stock records
\* with size 2000 make exactly two calls, of 2000 and then 500 records.
C8_BatchesWithinCeiling ==
    mode = "dispatch" =>
        /\ \A k \in 1..Len(calls) :
               Len(calls[k].arg) <=
                   CASE target.market = "ozon" /\ calls[k].fn = "update_price" -> 1000
                     [] target.market = "ozon" /\ calls[k].fn = "update_stocks" -> 900
                     [] target.market = "yandex" /\ calls[k].fn = "update_price" -> 500
                     [] target.market = "yandex" /\ calls[k].fn = "update_stocks" -> 2000
        /\ Len(Dispatched) <= Len(div_lst)
        /\ Dispatched = SubSeq(div_lst, 1, Len(Dispatched))
        /\ (pc = "done" /\ err = "none") => Dispatched = div_lst
        /\ (pc = "done" /\ err = "none" /\ Len(div_lst) = 2500 /\ div_n = 2000) =>
               /\ Len(calls) = 2
               /\ Len(calls[1].arg) = 2000
               /\ Len(calls[2].arg) = 500

\* C8 witness: the loop of market.upload_stocks has ended after sending 2500
\* records
C8_Witness ==
    /\ mode = "dispatch" /\ pc = "done" /\ err = "none"
    /\ target.at = "market.upload_stocks"
    /\ Len(div_lst) = 2500
    /\ Len(calls) = 2

====
